---------------------------- MODULE Spec2Model ----------------------------
(***************************************************************************)
(* A model of aiterm: the multi-agent turn loop (run_converse), the        *)
(* streaming decoder of the Gemini vendor (ask_stream) and the aggregate   *)
(* call built on it (ask), the chunker (chunk_text), the retrieval store   *)
(* (RagStore::new / search) and the start of run_ask and run_converse.     *)
(*                                                                         *)
(* Text is a sequence of one-character strings.  Each component has its    *)
(* own specification; the variables of the other components stay idle.     *)
(***************************************************************************)
EXTENDS Integers, Sequences, FiniteSets, TLC

VARIABLES
    \* ---- run_converse (src/main.rs) ----
    agents,                 \* Vec<Agent>: [name, rag_store]
    turns,                  \* args.turns
    i,                      \* loop variable of `for i in 0..args.turns`
    pc,                     \* position of run_converse
    conversation_history,   \* the History: seed followed by the pushed entries
    context_str,            \* context block of the turn in flight
    full_response,          \* accumulated deltas of the turn in flight
    relayed,                \* deltas of the stream in flight relayed to stdout
    calls,                  \* outbound calls issued by run_converse, in order
    result,                 \* value returned by run_converse ("none" while running)
    \* ---- Gemini::ask_stream (src/vendors/gemini.rs) ----
    objs,                   \* what the service sends: the segments of the body
    byte_stream,            \* bytes of the body not yet delivered
    transport,              \* state of res.bytes_stream(): open, closed, failed
    buffer,                 \* the decoder's text buffer
    yielded,                \* Ok items the decoder's stream has yielded, in order
    dpc,                    \* state of the decoder's stream: open, ended, error
    \* ---- chunk_text (src/rag.rs) ----
    text,                   \* the bytes of the text to chunk (valid UTF-8)
    max_size,
    overlap,
    start,                  \* the local `start`
    chunks,                 \* the local `chunks`: [text, lo, hi], slice text[lo..hi]
    cpc,                    \* position of chunk_text: entry, loop, returned, panic
    \* ---- RagStore (src/rag.rs) ----
    found,                  \* the chunks load_and_chunk_files returned to new
    store,                  \* the RagStore new returned: [chunks, embeddings]
    rpc,                    \* start, built (new returned Ok), failed (Err)
    search_out,             \* the last call of search and what it returned
    embed_calls,            \* the batches sent to the embedding service, in order
    \* ---- start of run_ask / run_converse (src/main.rs) ----
    cmd,                    \* the subcommand: ask, converse
    api_key_set,            \* whether GEMINI_API_KEY is set in the environment
    personas,               \* the persona files named by --persona, in order
    spos,                   \* position in the start-up code
    loaded,                 \* agents.len(): agents pushed so far
    outbound,               \* outbound calls issued so far, in order
    sres,                   \* what the command returned ("none" while running)
    \* ---- Gemini::ask (src/vendors/gemini.rs) ----
    apc,                    \* position of ask: call, stream, returned
    ask_response,           \* the local full_response of ask
    ask_result              \* what ask returned: [status, text]

converseVars ==
    <<agents, turns, i, pc, conversation_history, context_str, full_response,
      relayed, calls, result>>

decoderVars ==
    <<objs, byte_stream, transport, buffer, yielded, dpc>>

chunkVars ==
    <<text, max_size, overlap, start, chunks, cpc>>

ragVars ==
    <<found, store, rpc, search_out, embed_calls>>

startupVars ==
    <<cmd, api_key_set, personas, spos, loaded, outbound, sres>>

askVars ==
    <<apc, ask_response, ask_result>>

vars ==
    <<converseVars, decoderVars, chunkVars, ragVars, startupVars, askVars>>

(***************************************************************************)
(*                              Bounds                                     *)
(***************************************************************************)
MaxAgents == 3
MaxTurns == 3
MaxDeltas == 1
MaxSegments == 3
MaxChunk == 3
MaxTextLen == 6
MaxSize == 4
MaxChunks == 2
MaxCalls == 2
MaxPersonas == 2

(***************************************************************************)
(*                           Shared helpers                                *)
(***************************************************************************)
Last(s) ==
    s[Len(s)]

Front(s) ==
    SubSeq(s, 1, Len(s) - 1)

\* char::is_whitespace on the characters of the model
IsWhitespace(c) ==
    c = " "

RECURSIVE TrimStart(_)
TrimStart(s) ==
    IF s = <<>> THEN <<>>
    ELSE IF IsWhitespace(Head(s)) THEN TrimStart(Tail(s))
    ELSE s

RECURSIVE TrimEnd(_)
TrimEnd(s) ==
    IF s = <<>> THEN <<>>
    ELSE IF IsWhitespace(Last(s)) THEN TrimEnd(Front(s))
    ELSE s

\* str::trim: leading and trailing whitespace removed
Trim(s) ==
    TrimEnd(TrimStart(s))

(***************************************************************************)
(*                     run_converse (src/main.rs)                          *)
(***************************************************************************)
\* persona.name of the agent loaded from the k-th --persona argument
PersonaNames ==
    <<"ann", "bob", "cy", "dee">>

\* Agent.rag_store: None, Some(store without chunks), Some(store with chunks)
StoreKinds ==
    {"none", "empty", "docs"}

\* what one item of a ResponseStream can carry
Deltas ==
    {<<"a">>, <<" ">>}

\* the opening prompt, tagged as user-originated
Seed ==
    [speaker |-> "user", text |-> <<"h", "i">>]

\* one pushed entry "\n\n{name}: {trimmed response}"
Entry(name, response) ==
    [speaker |-> name, text |-> Trim(response)]

CurrentAgentIndex_OffByOne(k, n) ==
    (k + 1) % n

\* current_agent_index = i % agents.len()  (0-based)
CurrentAgentIndex(k, n) ==
    k % n

\* agents[current_agent_index]
ActiveAgent ==
    agents[CurrentAgentIndex(i, Len(agents)) + 1]

\* the decoder is not running
DecoderIdle ==
    /\ objs = <<>>
    /\ byte_stream = <<>>
    /\ transport = "idle"
    /\ buffer = <<>>
    /\ yielded = <<>>
    /\ dpc = "idle"

ConverseStart ==
    /\ \E n \in 2..MaxAgents :
         \E stores \in [1..n -> StoreKinds] :
           agents = [k \in 1..n |-> [name |-> PersonaNames[k], rag_store |-> stores[k]]]
    /\ turns \in 0..MaxTurns
    /\ i = 0
    /\ pc = "loop"
    /\ conversation_history = <<Seed>>
    /\ context_str = ""
    /\ full_response = <<>>
    /\ relayed = 0
    /\ calls = <<>>
    /\ result = "none"

\* chunk_text is not running
ChunkIdle ==
    /\ text = <<>>
    /\ max_size = 0
    /\ overlap = 0
    /\ start = 0
    /\ chunks = <<>>
    /\ cpc = "idle"

NoStore ==
    [chunks |-> <<>>, embeddings |-> <<>>]

NoSearch ==
    [query |-> "", top_k |-> 0, embedded |-> "none", qvec |-> <<>>,
     res |-> "none", snippets |-> <<>>]

\* no store is being built
RagIdle ==
    /\ found = <<>>
    /\ store = NoStore
    /\ rpc = "idle"
    /\ search_out = NoSearch
    /\ embed_calls = <<>>

\* no command is starting
StartupIdle ==
    /\ cmd = "idle"
    /\ api_key_set = FALSE
    /\ personas = <<>>
    /\ spos = "idle"
    /\ loaded = 0
    /\ outbound = <<>>
    /\ sres = "none"

NoAskResult ==
    [status |-> "none", text |-> <<>>]

\* Gemini::ask is not running
AskIdle ==
    /\ apc = "idle"
    /\ ask_response = <<>>
    /\ ask_result = NoAskResult

ConverseInit ==
    /\ ConverseStart
    /\ DecoderIdle
    /\ ChunkIdle
    /\ RagIdle
    /\ StartupIdle
    /\ AskIdle

\* the error is returned by `?`: nothing else of the run changes
Abort(err) ==
    /\ pc' = "failed"
    /\ result' = err
    /\ UNCHANGED <<agents, turns, i, conversation_history, context_str,
                   full_response, relayed>>

\* loop head: the next turn begins, its agent is selected
TurnStart ==
    /\ pc = "loop"
    /\ i < turns
    /\ pc' = IF ActiveAgent.rag_store = "none" THEN "ask" ELSE "search"
    /\ context_str' = ""
    /\ UNCHANGED <<agents, turns, i, conversation_history, full_response,
                   relayed, calls, result>>

Finish_EarlyExit ==
    /\ pc = "loop"
    /\ i + 1 >= turns
    /\ pc' = "done"
    /\ result' = "Ok"
    /\ UNCHANGED <<agents, turns, i, conversation_history, context_str,
                   full_response, relayed, calls>>

\* the range is exhausted: "Conversation Finished", Ok(())
Finish ==
    /\ pc = "loop"
    /\ i >= turns
    /\ pc' = "done"
    /\ result' = "Ok"
    /\ UNCHANGED <<agents, turns, i, conversation_history, context_str,
                   full_response, relayed, calls>>

SearchCall_OpeningPrompt ==
    [kind |-> "search", turn |-> i, agent |-> CurrentAgentIndex(i, Len(agents)),
     text |-> <<Seed>>]

SearchCall ==
    [kind |-> "search", turn |-> i, agent |-> CurrentAgentIndex(i, Len(agents)),
     text |-> conversation_history]

\* store.search(&conversation_history, rag_chunks) answers Ok
SearchOk ==
    /\ pc = "search"
    /\ calls' = Append(calls, SearchCall)
    /\ context_str' = IF ActiveAgent.rag_store = "docs" THEN "CONTEXT" ELSE ""
    /\ pc' = "ask"
    /\ UNCHANGED <<agents, turns, i, conversation_history, full_response,
                   relayed, result>>

\* store.search(...) answers Err: only a store with chunks calls the service
SearchErr ==
    /\ pc = "search"
    /\ ActiveAgent.rag_store = "docs"
    /\ calls' = Append(calls, SearchCall)
    /\ Abort("ErrSearch")

ChatCall ==
    [kind |-> "chat", turn |-> i, agent |-> CurrentAgentIndex(i, Len(agents)),
     text |-> conversation_history]

\* agent.model.ask_stream(&messages) answers Ok(stream)
AskStreamOk ==
    /\ pc = "ask"
    /\ calls' = Append(calls, ChatCall)
    /\ full_response' = <<>>
    /\ relayed' = 0
    /\ pc' = "stream"
    /\ UNCHANGED <<agents, turns, i, conversation_history, context_str, result>>

\* agent.model.ask_stream(&messages) answers Err
AskStreamErr ==
    /\ pc = "ask"
    /\ calls' = Append(calls, ChatCall)
    /\ Abort("ErrAsk")

StreamDelta_WritesHistory ==
    /\ pc = "stream"
    /\ relayed < MaxDeltas
    /\ \E chunk \in Deltas :
         /\ full_response' = full_response \o chunk
         /\ conversation_history' =
              Append(conversation_history, Entry(ActiveAgent.name, chunk))
    /\ relayed' = relayed + 1
    /\ UNCHANGED <<agents, turns, i, pc, context_str, calls, result>>

\* response_stream.next() = Some(Ok(chunk)): printed, flushed, accumulated
StreamDelta ==
    /\ pc = "stream"
    /\ relayed < MaxDeltas
    /\ \E chunk \in Deltas :
         full_response' = full_response \o chunk
    /\ relayed' = relayed + 1
    /\ UNCHANGED <<agents, turns, i, pc, conversation_history, context_str,
                   calls, result>>

\* Some(Ok(chunk)) arrives but io::stdout().flush()? fails
StreamDeltaStdoutErr ==
    /\ pc = "stream"
    /\ relayed < MaxDeltas
    /\ Abort("ErrStdout")
    /\ UNCHANGED calls

StreamItemErr_CommitsPartial ==
    /\ pc = "stream"
    /\ pc' = "failed"
    /\ result' = "ErrItem"
    /\ conversation_history' =
         Append(conversation_history, Entry(ActiveAgent.name, full_response))
    /\ UNCHANGED <<agents, turns, i, context_str, full_response, relayed, calls>>

\* response_stream.next() = Some(Err(e)): chunk_result.map_err(..)? returns
StreamItemErr ==
    /\ pc = "stream"
    /\ Abort("ErrItem")
    /\ UNCHANGED calls

\* response_stream.next() = None: the turn is committed to the History
StreamEnd ==
    /\ pc = "stream"
    /\ conversation_history' =
         Append(conversation_history, Entry(ActiveAgent.name, full_response))
    /\ i' = i + 1
    /\ pc' = "loop"
    /\ UNCHANGED <<agents, turns, context_str, full_response, relayed, calls,
                   result>>

ConverseNext ==
    \/ TurnStart /\ UNCHANGED <<decoderVars, chunkVars, ragVars, startupVars, askVars>>
    \/ Finish /\ UNCHANGED <<decoderVars, chunkVars, ragVars, startupVars, askVars>>
    \/ SearchOk /\ UNCHANGED <<decoderVars, chunkVars, ragVars, startupVars, askVars>>
    \/ SearchErr /\ UNCHANGED <<decoderVars, chunkVars, ragVars, startupVars, askVars>>
    \/ AskStreamOk /\ UNCHANGED <<decoderVars, chunkVars, ragVars, startupVars, askVars>>
    \/ AskStreamErr /\ UNCHANGED <<decoderVars, chunkVars, ragVars, startupVars, askVars>>
    \/ StreamDelta /\ UNCHANGED <<decoderVars, chunkVars, ragVars, startupVars, askVars>>
    \/ StreamDeltaStdoutErr /\ UNCHANGED <<decoderVars, chunkVars, ragVars, startupVars, askVars>>
    \/ StreamItemErr /\ UNCHANGED <<decoderVars, chunkVars, ragVars, startupVars, askVars>>
    \/ StreamEnd /\ UNCHANGED <<decoderVars, chunkVars, ragVars, startupVars, askVars>>

SpecConverse ==
    ConverseInit /\ [][ConverseNext]_vars

\* the failures the run can meet in a turn: search, start of the call, stream item
TurnFailures ==
    {"ErrSearch", "ErrAsk", "ErrItem"}

\* the k-th appended entry (k = 0 for turn 0) is attributed to agents[k mod N]
EntryAttributed(k) ==
    conversation_history[k + 2].speaker = agents[(k % Len(agents)) + 1].name

(* C1: in run_converse with N agents and T turns, a run in which no search    *)
(* and no stream fails ends with History = seed followed by exactly T         *)
(* entries, entry k attributed to agents[k mod N]; while it runs the History  *)
(* holds the seed and one entry per completed turn, also for a turn whose     *)
(* stream yielded no delta.                                                   *)
C1_RoundRobinHistory ==
    /\ conversation_history[1] = Seed
    /\ \A k \in 0..(Len(conversation_history) - 2) : EntryAttributed(k)
    /\ pc # "failed" => Len(conversation_history) = i + 1
    /\ pc = "done" => /\ i = turns
                      /\ Len(conversation_history) = turns + 1

\* a finished run that wrapped around the agent list and whose last turn
\* streamed no delta at all
C1_Witness ==
    /\ pc = "done"
    /\ turns > Len(agents)
    /\ relayed = 0
    /\ Last(conversation_history).text = <<>>
    /\ \E k \in 2..Len(conversation_history) : conversation_history[k].text # <<>>

(* C2: when the search, the start of the model call or a stream item fails   *)
(* in turn i, run_converse returns the failure, the History is the seed plus *)
(* the i entries of turns 0..i-1 (the failing step leaves it as it was, the  *)
(* relayed deltas are not appended), and no further step is taken: no call   *)
(* belongs to a turn after i.                                                *)
C2_AbortKeepsCommittedTurns ==
    /\ [](pc = "failed" /\ result \in TurnFailures =>
            /\ i < turns
            /\ Len(conversation_history) = i + 1
            /\ \A c \in 1..Len(calls) : calls[c].turn <= i)
    /\ [][pc' = "failed" => conversation_history' = conversation_history]_vars
    /\ [][pc # "failed"]_vars

\* a stream item fails in a later turn after a delta was relayed
C2_Witness ==
    /\ pc = "failed"
    /\ result = "ErrItem"
    /\ i >= 1
    /\ relayed > 0
    /\ full_response # <<>>

\* run_converse is one sequential control flow: while a step is possible
\* (an awaited answer arrives, a stream of finitely many items is drained)
\* it is taken
SpecConverseFair ==
    SpecConverse /\ WF_vars(ConverseNext)

IsChat(c) ==
    c.kind = "chat"

IsSearch(c) ==
    c.kind = "search"

\* the model calls issued so far, in order
ChatCalls ==
    SelectSeq(calls, IsChat)

\* the model calls are those of turns 0, 1, 2, .. in this order, one each
ChatCallsInTurnOrder ==
    \A k \in 1..Len(ChatCalls) : ChatCalls[k].turn = k - 1

IsPrefix(g, h) ==
    Len(g) <= Len(h) /\ SubSeq(h, 1, Len(g)) = g

(* C17: the History always starts with the seed; every step leaves what it  *)
(* held as a prefix of what it holds next; the only step that changes it is *)
(* the one taken when the current turn's stream has closed, which appends   *)
(* one entry and ends the turn; search, the model call and the relay of a   *)
(* delta leave it as it was.                                                *)
C17_HistoryAppendOnly ==
    /\ [](conversation_history # <<>> /\ conversation_history[1] = Seed)
    /\ [][IsPrefix(conversation_history, conversation_history')]_vars
    /\ [][conversation_history' # conversation_history =>
            /\ pc = "stream" /\ pc' = "loop"
            /\ i' = i + 1
            /\ Len(conversation_history') = Len(conversation_history) + 1
            /\ Last(conversation_history').speaker = ActiveAgent.name]_vars
    /\ [][(pc \in {"loop", "search", "ask"} \/ calls' # calls \/ relayed' # relayed)
             => (conversation_history' = conversation_history)]_vars

\* a later turn in flight: entries are committed, a search and a model call
\* were made and a delta was relayed since the last append
C17_Witness ==
    /\ pc = "stream"
    /\ Len(conversation_history) >= 3
    /\ relayed > 0
    /\ \E c \in 1..Len(calls) : calls[c].kind = "search" /\ calls[c].turn = i

\* the History as it stood after exactly n committed turns
HistoryAfter(n) ==
    SubSeq(conversation_history, 1, n + 1)

(* C18: every retrieval call of turn t carries the History after exactly t  *)
(* committed turns (seed plus entries 0..t-1) as its query and goes to the  *)
(* store of agents[t mod N], which has one; a turn of an agent without a    *)
(* store has no retrieval call; the model call of turn t carries the same   *)
(* History text.                                                            *)
C18_QueryIsFullHistory ==
    \A c \in 1..Len(calls) :
        LET call == calls[c]
            owner == agents[(call.turn % Len(agents)) + 1]
        IN  /\ call.turn <= i
            /\ call.text = HistoryAfter(call.turn)
            /\ Len(call.text) = call.turn + 1
            /\ call.agent = call.turn % Len(agents)
            /\ IsSearch(call) => owner.rag_store # "none"
            /\ IsChat(call) =>
                 IF owner.rag_store = "none"
                 THEN \A d \in 1..Len(calls) : IsSearch(calls[d]) => calls[d].turn # call.turn
                 ELSE /\ c > 1
                      /\ IsSearch(calls[c - 1])
                      /\ calls[c - 1].turn = call.turn
                      /\ calls[c - 1].text = call.text

\* a retrieval call of a later turn (its query is longer than the opening
\* prompt) after a turn of an agent without a store
C18_Witness ==
    /\ \E c \in 1..Len(calls) :
         IsSearch(calls[c]) /\ calls[c].turn >= 1 /\ Len(calls[c].text) >= 2
    /\ \E c \in 1..Len(calls) :
         IsChat(calls[c]) /\ agents[(calls[c].turn % Len(agents)) + 1].rag_store = "none"
    /\ pc = "stream"

(***************************************************************************)
(*            Gemini::ask_stream (src/vendors/gemini.rs)                   *)
(*                                                                         *)
(* A byte is a one-character string.  ASCII runs of the body that hold no  *)
(* brace are one byte of the model:                                        *)
(*   "c" = "candidates":[     "n" = "content":     "p" = "parts":[         *)
(*   "t" = "text":"           "q" = closing quote of a string              *)
(* "L" "T" are the lead and the continuation byte of one two-byte          *)
(* character, decoded to "E"; "?" is U+FFFD; "x" is a byte no JSON         *)
(* document holds outside a string.                                        *)
(***************************************************************************)
At(s, k) ==
    IF k >= 1 /\ k <= Len(s) THEN s[k] ELSE "EOF"

Drop(s, k) ==
    SubSeq(s, k + 1, Len(s))

\* String::from_utf8_lossy(&chunk): every fragment is decoded on its own
RECURSIVE FromUtf8Lossy(_)
FromUtf8Lossy(chunk) ==
    IF chunk = <<>> THEN <<>>
    ELSE IF Head(chunk) = "L"
         THEN IF At(chunk, 2) = "T"
              THEN <<"E">> \o FromUtf8Lossy(Drop(chunk, 2))
              ELSE <<"?">> \o FromUtf8Lossy(Tail(chunk))
    ELSE IF Head(chunk) = "T" THEN <<"?">> \o FromUtf8Lossy(Tail(chunk))
    ELSE <<Head(chunk)>> \o FromUtf8Lossy(Tail(chunk))

\* buffer.find('{'): 1-based position of the first `{`, 0 for None
FindBrace(buf) ==
    LET at == {k \in 1..Len(buf) : buf[k] = "{"}
    IN  IF at = {} THEN 0 ELSE CHOOSE k \in at : \A j \in at : k <= j

\* one step of the depth count: every brace counts, quoted or not
BraceStep(c, open_braces) ==
    IF c = "{" THEN open_braces + 1
    ELSE IF c = "}" THEN open_braces - 1
    ELSE open_braces

RECURSIVE ScanQuoted(_, _, _, _)
ScanQuoted(buf, k, open_braces, in_string) ==
    IF k > Len(buf) THEN 0
    ELSE IF in_string THEN ScanQuoted(buf, k + 1, open_braces, buf[k] # "q")
    ELSE LET d == BraceStep(buf[k], open_braces)
         IN  IF d = 0 THEN k ELSE ScanQuoted(buf, k + 1, d, buf[k] = "t")

ScanEnd_QuoteAware(buf, k, open_braces) ==
    ScanQuoted(buf, k, open_braces, FALSE)

\* the scan `for (i, c) in buffer[start_idx..].char_indices()`: the position
\* of the character at which open_braces is 0 again, 0 when the buffer ends first
RECURSIVE ScanEnd(_, _, _)
ScanEnd(buf, k, open_braces) ==
    IF k > Len(buf) THEN 0
    ELSE LET d == BraceStep(buf[k], open_braces)
         IN  IF d = 0 THEN k ELSE ScanEnd(buf, k + 1, d)

\* characters a JSON string of the model may hold
StringChars ==
    {"a", "b", "E", "?", "{", "}", "[", "]", ",", "x", " "}

\* The deserializer of ResponseBody { candidates: [ { content: { parts:
\* [ { text } ] } } ] } as the automaton it is on the characters of the
\* model: the state after reading c in state st ("fail" when c is not allowed)
ParseStep(st, c) ==
    CASE st = "body"        -> IF c = "{" THEN "body_key" ELSE "fail"
      [] st = "body_key"    -> IF c = "c" THEN "cands" ELSE "fail"
      [] st = "cands"       -> IF c = "]" THEN "body_end"
                               ELSE IF c = "{" THEN "cand_key" ELSE "fail"
      [] st = "cand_key"    -> IF c = "n" THEN "content" ELSE "fail"
      [] st = "content"     -> IF c = "{" THEN "content_key" ELSE "fail"
      [] st = "content_key" -> IF c = "p" THEN "parts" ELSE "fail"
      [] st = "parts"       -> IF c = "]" THEN "content_end"
                               ELSE IF c = "{" THEN "part_key" ELSE "fail"
      [] st = "part_key"    -> IF c = "t" THEN "string" ELSE "fail"
      [] st = "string"      -> IF c \in StringChars THEN "string"
                               ELSE IF c = "q" THEN "part_end" ELSE "fail"
      [] st = "part_end"    -> IF c = "}" THEN "parts_more" ELSE "fail"
      [] st = "parts_more"  -> IF c = "," THEN "part" 
                               ELSE IF c = "]" THEN "content_end" ELSE "fail"
      [] st = "part"        -> IF c = "{" THEN "part_key" ELSE "fail"
      [] st = "content_end" -> IF c = "}" THEN "cand_end" ELSE "fail"
      [] st = "cand_end"    -> IF c = "}" THEN "cands_more" ELSE "fail"
      [] st = "cands_more"  -> IF c = "," THEN "cand"
                               ELSE IF c = "]" THEN "body_end" ELSE "fail"
      [] st = "cand"        -> IF c = "{" THEN "cand_key" ELSE "fail"
      [] st = "body_end"    -> IF c = "}" THEN "accept" ELSE "fail"
      [] OTHER              -> "fail"

\* the run of the automaton from character k on; cands are the candidates
\* read so far, parts the texts of the candidate being read, txt the string
\* being read
RECURSIVE ParseRun(_, _, _, _, _, _)
ParseRun(s, k, st, cands, parts, txt) ==
    IF k > Len(s)
    THEN [ok |-> st = "accept", candidates |-> cands]
    ELSE LET nx == ParseStep(st, s[k])
         IN  IF nx = "fail"
             THEN [ok |-> FALSE, candidates |-> <<>>]
             ELSE ParseRun(s, k + 1, nx,
                    IF nx = "cands_more" THEN Append(cands, parts) ELSE cands,
                    IF nx = "cand_key" THEN <<>>
                    ELSE IF nx = "part_end" THEN Append(parts, txt) ELSE parts,
                    IF nx = "part_key" THEN <<>>
                    ELSE IF st = "string" /\ nx = "string" THEN Append(txt, s[k])
                    ELSE txt)

\* serde_json::from_str::<ResponseBody>(object_str): the candidates, each the
\* list of the texts of its parts; anything after the object is an error
ParseResponseBody(object_str) ==
    ParseRun(object_str, 1, "body", <<>>, <<>>, <<>>)

\* rb.candidates.first().and_then(|c| c.content.parts.first()).map(text):
\* <<text>> for Some(text), <<>> for None
FirstText(rb) ==
    IF rb.candidates = <<>> \/ Head(rb.candidates) = <<>> THEN <<>>
    ELSE <<Head(Head(rb.candidates))>>

\* what one extracted slice yields: its first text when it parses and the
\* text is not empty, nothing otherwise
ObjectDeltas(object_str) ==
    LET rb == ParseResponseBody(object_str)
    IN  IF ~rb.ok THEN <<>>
        ELSE LET first == FirstText(rb)
             IN  IF first # <<>> /\ first[1] # <<>> THEN first ELSE <<>>

Extract_OneObjectPerChunk(buf, out) ==
    LET start_idx == FindBrace(buf)
    IN  IF start_idx = 0 THEN [buffer |-> <<>>, out |-> out]
        ELSE LET end_idx == ScanEnd(buf, start_idx, 0)
             IN  IF end_idx = 0 THEN [buffer |-> buf, out |-> out]
                 ELSE [buffer |-> Drop(buf, end_idx),
                       out |-> out \o ObjectDeltas(SubSeq(buf, start_idx, end_idx))]

RECURSIVE Extract_StopsAtMalformed(_, _)
Extract_StopsAtMalformed(buf, out) ==
    LET start_idx == FindBrace(buf)
    IN  IF start_idx = 0 THEN [buffer |-> <<>>, out |-> out]
        ELSE LET end_idx == ScanEnd(buf, start_idx, 0)
             IN  IF end_idx = 0 THEN [buffer |-> buf, out |-> out]
                 ELSE IF ~ParseResponseBody(SubSeq(buf, start_idx, end_idx)).ok
                      THEN [buffer |-> buf, out |-> out]
                 ELSE Extract_StopsAtMalformed(Drop(buf, end_idx),
                              out \o ObjectDeltas(SubSeq(buf, start_idx, end_idx)))

RECURSIVE Extract_KeepsBytesWithoutBrace(_, _)
Extract_KeepsBytesWithoutBrace(buf, out) ==
    LET start_idx == FindBrace(buf)
    IN  IF start_idx = 0 THEN [buffer |-> buf, out |-> out]
        ELSE LET end_idx == ScanEnd(buf, start_idx, 0)
             IN  IF end_idx = 0 THEN [buffer |-> buf, out |-> out]
                 ELSE Extract_KeepsBytesWithoutBrace(Drop(buf, end_idx),
                              out \o ObjectDeltas(SubSeq(buf, start_idx, end_idx)))

\* the inner `loop`: [buffer, out] when it breaks
RECURSIVE Extract(_, _)
Extract(buf, out) ==
    LET start_idx == FindBrace(buf)
    IN  IF start_idx = 0 THEN [buffer |-> <<>>, out |-> out]
        ELSE LET end_idx == ScanEnd(buf, start_idx, 0)
             IN  IF end_idx = 0 THEN [buffer |-> buf, out |-> out]
                 ELSE Extract(Drop(buf, end_idx),
                              out \o ObjectDeltas(SubSeq(buf, start_idx, end_idx)))

\* {"txt":"<txt>"}
PartBytes(txt) ==
    <<"{", "t">> \o txt \o <<"q", "}">>

\* a response object with one candidate holding the given parts
EnvelopeBytes(parts) ==
    <<"{", "c", "{", "n", "{", "p">> \o parts \o <<"]", "}", "}", "]", "}">>

\* the bytes of the texts the service puts in its objects
Texts ==
    {<<>>, <<"a">>, <<"L", "T">>}

\* the segments a body is made of
\* (len is the number of bytes sent of an object that is cut short)
Segments ==
    [kind : {"obj"}, text : Texts, len : {0}]
      \cup [kind : {"nocand", "bad"}, text : {<<>>}, len : {0}]
      \cup [kind : {"sep"}, text : {<<",">>}, len : {0}]

\* the bytes of one segment
Render(seg) ==
    CASE seg.kind = "obj" -> EnvelopeBytes(PartBytes(seg.text))
      [] seg.kind = "nocand" -> <<"{", "c", "]", "}">>
      [] seg.kind = "bad" -> <<"{", "c", "{", "x", "}", "]", "}">>
      [] seg.kind = "sep" -> seg.text
      [] seg.kind = "trunc" ->
           SubSeq(EnvelopeBytes(PartBytes(seg.text)), 1, seg.len)

RECURSIVE RenderAll(_)
RenderAll(segs) ==
    IF segs = <<>> THEN <<>> ELSE Render(Head(segs)) \o RenderAll(Tail(segs))

\* bodies of up to MaxSegments segments
RECURSIVE Bodies(_)
Bodies(n) ==
    IF n = 0 THEN {<<>>}
    ELSE LET shorter == Bodies(n - 1)
         IN  shorter \cup {Append(b, seg) : b \in {x \in shorter : Len(x) = n - 1},
                                            seg \in Segments}

\* a body cut short inside its last object
TruncatedTails ==
    UNION {{[kind |-> "trunc", text |-> t, len |-> n] :
               n \in 1..(Len(EnvelopeBytes(PartBytes(t))) - 1)} :
             t \in Texts \ {<<>>}}

\* ask_stream has returned Ok(stream): nothing is buffered, nothing yielded
\* what the service may send: whole segments, the last one possibly cut short
ServiceBodies ==
    Bodies(MaxSegments)
      \cup {Append(b, t) : b \in Bodies(MaxSegments - 2), t \in TruncatedTails}

DecoderStart ==
    /\ objs \in ServiceBodies
    /\ byte_stream = RenderAll(objs)
    /\ transport = "open"
    /\ buffer = <<>>
    /\ yielded = <<>>
    /\ dpc = "open"

\* the sizes the transport may give the next fragment: a few bytes, or all
\* the bytes that are left
ChunkSizes ==
    {n \in 1..Len(byte_stream) : n <= MaxChunk \/ n = Len(byte_stream)}

\* byte_stream.next() = Some(Ok(chunk)): the chunk is decoded and appended,
\* the inner loop runs until it breaks
DecoderChunk ==
    /\ dpc = "open"
    /\ \E n \in ChunkSizes :
         LET chunk == SubSeq(byte_stream, 1, n)
             r == Extract(buffer \o FromUtf8Lossy(chunk), <<>>)
         IN  /\ byte_stream' = Drop(byte_stream, n)
             /\ buffer' = r.buffer
             /\ yielded' = yielded \o r.out
    /\ UNCHANGED <<objs, transport, dpc>>

\* byte_stream.next() = Some(Err(e)): `chunk_result?` yields the error and ends
DecoderChunkErr ==
    /\ dpc = "open"
    /\ transport' = "failed"
    /\ dpc' = "error"
    /\ UNCHANGED <<objs, byte_stream, buffer, yielded>>

DecoderClose_ErrOnLeftover ==
    /\ dpc = "open"
    /\ byte_stream = <<>>
    /\ transport' = "closed"
    /\ dpc' = IF buffer = <<>> THEN "ended" ELSE "error"
    /\ UNCHANGED <<objs, byte_stream, buffer, yielded>>

\* byte_stream.next() = None: the `while let` loop ends and with it the
\* stream; what is left in the buffer is dropped
DecoderClose ==
    /\ dpc = "open"
    /\ byte_stream = <<>>
    /\ transport' = "closed"
    /\ dpc' = "ended"
    /\ UNCHANGED <<objs, byte_stream, buffer, yielded>>

ConverseIdle ==
    /\ agents = <<>>
    /\ turns = 0
    /\ i = 0
    /\ pc = "idle"
    /\ conversation_history = <<>>
    /\ context_str = ""
    /\ full_response = <<>>
    /\ relayed = 0
    /\ calls = <<>>
    /\ result = "none"

DecoderInit ==
    /\ DecoderStart
    /\ ConverseIdle
    /\ ChunkIdle
    /\ RagIdle
    /\ StartupIdle
    /\ AskIdle

DecoderNext ==
    \/ DecoderChunk /\ UNCHANGED <<converseVars, chunkVars, ragVars, startupVars, askVars>>
    \/ DecoderChunkErr /\ UNCHANGED <<converseVars, chunkVars, ragVars, startupVars, askVars>>
    \/ DecoderClose /\ UNCHANGED <<converseVars, chunkVars, ragVars, startupVars, askVars>>

SpecDecoder ==
    DecoderInit /\ [][DecoderNext]_vars

(***************************************************************************)
(*                     Properties of the decoder                           *)
(***************************************************************************)
\* bytes of the body delivered so far
Delivered ==
    Len(RenderAll(objs)) - Len(byte_stream)

\* how many leading segments lie wholly within the first n bytes
RECURSIVE CompletePrefix(_, _)
CompletePrefix(segs, n) ==
    IF segs = <<>> \/ Len(Render(Head(segs))) > n THEN 0
    ELSE 1 + CompletePrefix(Tail(segs), n - Len(Render(Head(segs))))

\* the segments delivered in full
DeliveredObjs ==
    SubSeq(objs, 1, CompletePrefix(objs, Delivered))

\* a well-formed object whose first text is not empty
HasDelta(seg) ==
    seg.kind = "obj" /\ seg.text # <<>>

\* the texts (as bytes) of the objects of segs that carry one, in order
ExpectedTexts(segs) ==
    LET sel == SelectSeq(segs, HasDelta)
    IN  [k \in 1..Len(sel) |-> sel[k].text]

\* a txt with every two-byte character written as the two replacement
\* characters its bytes decode to when a fragment boundary parts them
RECURSIVE Scrub(_)
Scrub(txt) ==
    IF txt = <<>> THEN <<>>
    ELSE IF Head(txt) = "E" THEN <<"?", "?">> \o Scrub(Tail(txt))
    ELSE <<Head(txt)>> \o Scrub(Tail(txt))

\* delta is the decoded text: equal to it, but for a character whose bytes
\* arrived in two fragments
IsDeltaOf(delta, txt) ==
    /\ delta # <<>>
    /\ Scrub(delta) = Scrub(FromUtf8Lossy(txt))

\* the deltas yielded so far are those of segs, one per object, in order
YieldedFor(segs) ==
    LET e == ExpectedTexts(segs)
    IN  /\ Len(yielded) = Len(e)
        /\ \A k \in 1..Len(e) : IsDeltaOf(yielded[k], e[k])

\* what the decoder yields when the whole body arrives as one fragment
SingleFragmentDeltas ==
    Extract(FromUtf8Lossy(RenderAll(objs)), <<>>).out

\* the body is one well-formed object
OneObject ==
    Len(objs) = 1 /\ objs[1].kind = "obj"

(* C3: one well-formed object yields the same deltas however its bytes are *)
(* split into fragments as it yields when it arrives as one fragment.      *)
C3_FragmentationInvariant ==
    (OneObject /\ byte_stream = <<>>) => yielded = SingleFragmentDeltas

\* the body holds only well-formed objects and separators
WellFormedBody ==
    \A k \in 1..Len(objs) : objs[k].kind \in {"obj", "nocand", "sep"}

(* C4: for a body of well-formed objects, possibly separated by non-brace   *)
(* bytes, in any fragmentation, the deltas yielded after each fragment are  *)
(* those of the objects delivered in full so far, one per object with a     *)
(* non-empty first text, in arrival order; an object whose first text is    *)
(* empty or absent yields nothing.  At the end exactly k deltas were        *)
(* yielded for k such objects.  (A delta is the object's text as decoded.)  *)
C4_OneDeltaPerObject ==
    WellFormedBody => YieldedFor(DeliveredObjs)

\* two objects with text around one without, several objects in one fragment
C4_Witness ==
    /\ WellFormedBody
    /\ byte_stream = <<>>
    /\ Len(objs) = 3
    /\ HasDelta(objs[1]) /\ ~HasDelta(objs[2]) /\ objs[2].kind # "sep"
    /\ HasDelta(objs[3])
    /\ objs[1].text # objs[3].text
    /\ Len(yielded) = 2
    /\ yielded[1] = objs[1].text

\* position of a malformed object that stands between two valid ones
BadBetweenValid ==
    {k \in 2..(Len(objs) - 1) :
        objs[k].kind = "bad" /\ HasDelta(objs[k - 1]) /\ HasDelta(objs[k + 1])}

\* the body is made of whole segments
WholeBody ==
    \A k \in 1..Len(objs) : objs[k].kind # "trunc"

(* C5: a brace-balanced slice that fails to parse, between two valid        *)
(* objects, is skipped: it yields nothing, no error item is yielded for it  *)
(* (the stream errs only when the transport fails), it is removed from the  *)
(* buffer once it is complete, and the deltas of the valid objects before   *)
(* and after it are yielded in order.                                       *)
C5_MalformedSkipped ==
    (WholeBody /\ BadBetweenValid # {}) =>
        /\ YieldedFor(DeliveredObjs)
        /\ dpc = "error" => transport = "failed"
        /\ \A k \in BadBetweenValid :
             k <= Len(DeliveredObjs) =>
                 Len(buffer) <= Delivered - Len(RenderAll(SubSeq(objs, 1, k)))

\* valid1, bad, valid2 all delivered: two deltas, the buffer is empty
C5_Witness ==
    /\ Len(objs) = 3
    /\ BadBetweenValid = {2}
    /\ byte_stream = <<>>
    /\ dpc = "ended"
    /\ buffer = <<>>
    /\ Len(yielded) = 2

(* C6: when the byte stream closes while the buffer holds a truncated       *)
(* object, the decoder's stream ends normally: no error item, no delta for  *)
(* the truncated object; a body that is only a truncated object yields      *)
(* nothing.                                                                 *)
C6_TruncatedDropped ==
    (transport = "closed" /\ objs # <<>> /\ Last(objs).kind = "trunc") =>
        /\ dpc = "ended"
        /\ YieldedFor(Front(objs))
        /\ Len(objs) = 1 => yielded = <<>>

\* closed with a truncated object left in the buffer
C6_Witness ==
    /\ transport = "closed"
    /\ Len(objs) = 1
    /\ objs[1].kind = "trunc"
    /\ objs[1].len > 8
    /\ FindBrace(buffer) = 1
    /\ ScanEnd(buffer, 1, 0) = 0

\* number of `{` minus number of `}` among the characters lo..hi of buf
DepthOver(buf, lo, hi) ==
    Cardinality({k \in lo..hi : buf[k] = "{"})
      - Cardinality({k \in lo..hi : buf[k] = "}"})

\* buf holds a `{`, and from the first one on the depth stays above zero up
\* to the end of buf: an object has begun and is not complete
HoldsOnlyPartialObject(buf) ==
    \E f \in 1..Len(buf) :
        /\ buf[f] = "{"
        /\ \A k \in 1..(f - 1) : buf[k] # "{"
        /\ \A k \in f..Len(buf) : DepthOver(buf, f, k) > 0

(* C21: whenever a fragment has been processed (the decoder awaits the     *)
(* next one, or the stream has ended), the buffer holds no complete object: *)
(* it is empty, or it holds a `{` from which the depth never returns to     *)
(* zero before the buffer ends; a buffer without `{` has been cleared.      *)
C21_NoCompleteObjectBuffered ==
    buffer = <<>> \/ HoldsOnlyPartialObject(buffer)

\* an object was consumed and the start of the next one is retained, with
\* the separator before it
C21_Witness ==
    /\ dpc = "open"
    /\ yielded # <<>>
    /\ byte_stream # <<>>
    /\ buffer # <<>>
    /\ buffer[1] = ","

(***************************************************************************)
(*          The decoder on texts that hold literal braces                  *)
(***************************************************************************)
\* texts of objects, with and without braces
BraceTexts ==
    {<<"a">>, <<"}">>, <<"{">>, <<"}", "{">>, <<"{", "}">>}

\* bodies of up to n well-formed objects whose texts are BraceTexts
RECURSIVE BraceBodies(_)
BraceBodies(n) ==
    IF n = 0 THEN {<<>>}
    ELSE LET shorter == BraceBodies(n - 1)
         IN  shorter \cup
               {Append(b, [kind |-> "obj", text |-> t, len |-> 0]) :
                  b \in {x \in shorter : Len(x) = n - 1}, t \in BraceTexts}

DecoderStartBraces ==
    /\ objs \in BraceBodies(MaxSegments)
    /\ byte_stream = RenderAll(objs)
    /\ transport = "open"
    /\ buffer = <<>>
    /\ yielded = <<>>
    /\ dpc = "open"

DecoderInitBraces ==
    /\ DecoderStartBraces
    /\ ConverseIdle
    /\ ChunkIdle
    /\ RagIdle
    /\ StartupIdle
    /\ AskIdle

SpecDecoderBraces ==
    DecoderInitBraces /\ [][DecoderNext]_vars

\* some brace of txt has no partner: a `}` with no `{` open before it, or a
\* `{` with no `}` after it (d counts the `{` still open)
RECURSIVE UnmatchedFrom(_, _)
UnmatchedFrom(txt, d) ==
    IF txt = <<>> THEN d > 0
    ELSE IF Head(txt) = "{" THEN UnmatchedFrom(Tail(txt), d + 1)
    ELSE IF Head(txt) = "}" THEN d = 0 \/ UnmatchedFrom(Tail(txt), d - 1)
    ELSE UnmatchedFrom(Tail(txt), d)

HasUnmatchedBrace(txt) ==
    UnmatchedFrom(txt, 0)

BraceCount(txt, c) ==
    Cardinality({k \in 1..Len(txt) : txt[k] = c})

\* txt holds more `{` than `}` or more `}` than `{`
UnequalBraces(txt) ==
    BraceCount(txt, "{") # BraceCount(txt, "}")

BraceFree(txt) ==
    BraceCount(txt, "{") = 0 /\ BraceCount(txt, "}") = 0

(* C15 as stated: the text of a well-formed object whose text holds an      *)
(* unmatched `}` or `{` is never emitted as a delta.                        *)
C15_UnmatchedBraceNeverEmitted ==
    \A k \in 1..Len(objs) :
        (objs[k].kind = "obj" /\ HasUnmatchedBrace(objs[k].text)) =>
            \A j \in 1..Len(yielded) : yielded[j] # objs[k].text

(* C15 amended: the text of a well-formed object whose text holds unequal   *)
(* numbers of `{` and `}` is never emitted as a delta (a text such as "}{", *)
(* whose braces are unmatched but equal in number, leaves the depth count   *)
(* positive up to the end of the object and is emitted).                    *)
C15_UnequalBracesNeverEmitted ==
    \A k \in 1..Len(objs) :
        (objs[k].kind = "obj" /\ UnequalBraces(objs[k].text)) =>
            \A j \in 1..Len(yielded) : yielded[j] # objs[k].text

\* an object with a literal `}` was delivered and dropped, the object after
\* it was emitted
C15_Witness ==
    /\ Len(objs) = 2
    /\ objs[1].text = <<"}">>
    /\ objs[2].text = <<"a">>
    /\ byte_stream = <<>>
    /\ dpc = "ended"
    /\ yielded = << <<"a">> >>

IsPlainObj(seg) ==
    seg.kind = "obj" /\ seg.text # <<>> /\ BraceFree(seg.text)

\* position of the first object whose text holds an unmatched brace, 0 if none
FirstUnmatched ==
    LET at == {k \in 1..Len(objs) : HasUnmatchedBrace(objs[k].text)}
    IN  IF at = {} THEN 0 ELSE CHOOSE k \in at : \A j \in at : k <= j

\* the deltas without braces yielded so far
PlainYielded ==
    SelectSeq(yielded, BraceFree)

(* C16: in a stream in which an object whose text holds an unmatched brace  *)
(* is followed by well-formed objects with non-empty text and no braces,    *)
(* each of those objects is decoded and its delta emitted: once the whole   *)
(* stream is delivered, every such object has its delta.                    *)
C16_FollowingObjectsDecoded ==
    (FirstUnmatched # 0 /\ byte_stream = <<>>) =>
        Len(PlainYielded) = Len(SelectSeq(objs, IsPlainObj))

\* the part that holds: when the texts with braces hold `}` only (or braces
\* that leave the count unchanged), the objects after them are emitted
FollowingDecodedAfterClosingBrace ==
    (\A k \in 1..Len(objs) : BraceCount(objs[k].text, "{") = 0) =>
        C16_FollowingObjectsDecoded

(***************************************************************************)
(*               Gemini::ask (src/vendors/gemini.rs)                       *)
(*                                                                         *)
(* ask drains the stream ask_stream returns.  The stream is pulled: the    *)
(* decoder reads a fragment inside ask's call of stream.next(), so a step  *)
(* of ask is the decoder's step together with what ask does with the items *)
(* it yields.                                                              *)
(***************************************************************************)
RECURSIVE Flatten(_)
Flatten(items) ==
    IF items = <<>> THEN <<>> ELSE Head(items) \o Flatten(Tail(items))

GeminiAskStart ==
    /\ DecoderStart
    /\ apc = "call"
    /\ ask_response = <<>>
    /\ ask_result = NoAskResult

\* let mut stream = self.ask_stream(messages).await?  fails: the send fails
\* or the status is not a success
GeminiAskStreamErr ==
    /\ apc = "call"
    /\ apc' = "returned"
    /\ ask_result' = [status |-> "Err", text |-> <<>>]
    /\ UNCHANGED <<decoderVars, ask_response>>

\* ask_stream returns Ok(stream); let mut full_response = String::new()
GeminiAskStreamOk ==
    /\ apc = "call"
    /\ apc' = "stream"
    /\ ask_response' = <<>>
    /\ UNCHANGED <<decoderVars, ask_result>>

\* stream.next() reads a fragment; every Ok(c) it yields is pushed
GeminiAskChunk ==
    /\ apc = "stream"
    /\ DecoderChunk
    /\ ask_response' =
         ask_response \o Flatten(SubSeq(yielded', Len(yielded) + 1, Len(yielded')))
    /\ UNCHANGED <<apc, ask_result>>

\* stream.next() = Some(Err(e)): return Err(e); full_response is dropped
GeminiAskItemErr ==
    /\ apc = "stream"
    /\ DecoderChunkErr
    /\ apc' = "returned"
    /\ ask_result' = [status |-> "Err", text |-> <<>>]
    /\ UNCHANGED ask_response

\* stream.next() = None: Ok(full_response)
GeminiAskEnd ==
    /\ apc = "stream"
    /\ DecoderClose
    /\ apc' = "returned"
    /\ ask_result' = [status |-> "Ok", text |-> ask_response]
    /\ UNCHANGED ask_response

GeminiAskInit ==
    /\ GeminiAskStart
    /\ ConverseIdle
    /\ ChunkIdle
    /\ RagIdle
    /\ StartupIdle

GeminiAskNext ==
    \/ GeminiAskStreamErr /\ UNCHANGED <<converseVars, chunkVars, ragVars, startupVars>>
    \/ GeminiAskStreamOk /\ UNCHANGED <<converseVars, chunkVars, ragVars, startupVars>>
    \/ GeminiAskChunk /\ UNCHANGED <<converseVars, chunkVars, ragVars, startupVars>>
    \/ GeminiAskItemErr /\ UNCHANGED <<converseVars, chunkVars, ragVars, startupVars>>
    \/ GeminiAskEnd /\ UNCHANGED <<converseVars, chunkVars, ragVars, startupVars>>

SpecGeminiAsk ==
    GeminiAskInit /\ [][GeminiAskNext]_vars

(* C20: for the same service byte stream ask returns the in-order           *)
(* concatenation of the deltas ask_stream yields (here: the deltas it       *)
(* yields when the same bytes reach it as one fragment, while the bytes     *)
(* reach ask in any fragmentation); when the stream yields an error item    *)
(* ask returns the error and none of the text accumulated before it.        *)
C20_AskEqualsStreamDeltas ==
    /\ ask_result.status = "Ok" => ask_result.text = Flatten(SingleFragmentDeltas)
    /\ dpc = "error" => ask_result = [status |-> "Err", text |-> <<>>]

\* the part that holds: ask returns the concatenation of the items of the
\* stream it drained itself, and an error without text when an item is an error
AskConcatenatesItsStream ==
    /\ apc = "stream" => ask_response = Flatten(yielded)
    /\ ask_result.status = "Ok" =>
         dpc = "ended" /\ ask_result.text = Flatten(yielded)
    /\ dpc = "error" => ask_result = [status |-> "Err", text |-> <<>>]

(***************************************************************************)
(*                       chunk_text (src/rag.rs)                           *)
(*                                                                         *)
(* A text is its UTF-8 bytes: "a", "b", ... are one-byte characters, "L"   *)
(* "T" the two bytes of one character.  Lengths and indices are in bytes,  *)
(* as str::len and the range index are.                                    *)
(***************************************************************************)
\* the valid UTF-8 texts of n bytes over the characters a, b and LT
RECURSIVE Utf8Texts(_)
Utf8Texts(n) ==
    IF n = 0 THEN {<<>>}
    ELSE IF n = 1 THEN {<<"a">>, <<"b">>}
    ELSE {<<c>> \o t : c \in {"a", "b"}, t \in Utf8Texts(n - 1)}
           \cup {<<"L", "T">> \o t : t \in Utf8Texts(n - 2)}

\* the text of the example chunk("abcdefghij", 4, 1)
ExampleText ==
    <<"a", "b", "c", "d", "e", "f", "g", "h", "i", "j">>

\* str::is_char_boundary(idx): 0, len, or the first byte of a character
IsCharBoundary(s, idx) ==
    \/ idx = 0
    \/ idx = Len(s)
    \/ idx < Len(s) /\ s[idx + 1] # "T"

\* text[lo..hi] (0-based, hi excluded); the index panics off a boundary
Slice(s, lo, hi) ==
    SubSeq(s, lo + 1, hi)

Min(a, b) ==
    IF a <= b THEN a ELSE b

\* chunk_text is called
ChunkStart ==
    /\ \/ /\ \E n \in 0..MaxTextLen : text \in Utf8Texts(n)
          /\ max_size \in 1..MaxSize
       \/ /\ text = ExampleText
          /\ max_size = 4
    /\ overlap \in 0..(max_size - 1)
    /\ start = 0
    /\ chunks = <<>>
    /\ cpc = "entry"

\* if text.len() <= max_size { return vec![whole text] }
ChunkWhole ==
    /\ cpc = "entry"
    /\ Len(text) <= max_size
    /\ chunks' = <<[text |-> text, lo |-> 0, hi |-> Len(text)]>>
    /\ cpc' = "returned"
    /\ UNCHANGED <<text, max_size, overlap, start>>

\* otherwise: let mut chunks = Vec::new(); let mut start = 0;
ChunkEnterLoop ==
    /\ cpc = "entry"
    /\ Len(text) > max_size
    /\ chunks' = <<>>
    /\ start' = 0
    /\ cpc' = "loop"
    /\ UNCHANGED <<text, max_size, overlap>>

\* end = min(start + max_size, text.len())
ChunkEnd ==
    Min(start + max_size, Len(text))

\* the index text[start..end] panics: start or end is inside a character
ChunkPanic ==
    /\ cpc = "loop"
    /\ start < Len(text)
    /\ ~(IsCharBoundary(text, start) /\ IsCharBoundary(text, ChunkEnd))
    /\ cpc' = "panic"
    /\ UNCHANGED <<text, max_size, overlap, start, chunks>>

\* one iteration that pushes a chunk and advances start
ChunkPush ==
    /\ cpc = "loop"
    /\ start < Len(text)
    /\ IsCharBoundary(text, start) /\ IsCharBoundary(text, ChunkEnd)
    /\ ChunkEnd # Len(text)
    /\ chunks' = Append(chunks, [text |-> Slice(text, start, ChunkEnd),
                                 lo |-> start, hi |-> ChunkEnd])
    /\ start' = start + (max_size - overlap)
    /\ UNCHANGED <<text, max_size, overlap, cpc>>

\* the iteration whose window reaches the end: push, break, return chunks
ChunkLast ==
    /\ cpc = "loop"
    /\ start < Len(text)
    /\ IsCharBoundary(text, start) /\ IsCharBoundary(text, ChunkEnd)
    /\ ChunkEnd = Len(text)
    /\ chunks' = Append(chunks, [text |-> Slice(text, start, ChunkEnd),
                                 lo |-> start, hi |-> ChunkEnd])
    /\ cpc' = "returned"
    /\ UNCHANGED <<text, max_size, overlap, start>>

ChunkInit ==
    /\ ChunkStart
    /\ ConverseIdle
    /\ DecoderIdle
    /\ RagIdle
    /\ StartupIdle
    /\ AskIdle

ChunkNext ==
    \/ ChunkWhole /\ UNCHANGED <<converseVars, decoderVars, ragVars, startupVars, askVars>>
    \/ ChunkEnterLoop /\ UNCHANGED <<converseVars, decoderVars, ragVars, startupVars, askVars>>
    \/ ChunkPanic /\ UNCHANGED <<converseVars, decoderVars, ragVars, startupVars, askVars>>
    \/ ChunkPush /\ UNCHANGED <<converseVars, decoderVars, ragVars, startupVars, askVars>>
    \/ ChunkLast /\ UNCHANGED <<converseVars, decoderVars, ragVars, startupVars, askVars>>

SpecChunk ==
    ChunkInit /\ [][ChunkNext]_vars

\* number of characters of a text
CharLen(s) ==
    Cardinality({k \in 1..Len(s) : s[k] # "T"})

\* number of characters before byte index idx
CharPos(s, idx) ==
    Cardinality({k \in 1..idx : s[k] # "T"})

\* the property of C7 for the chunks returned, lengths counted in characters
ChunksCover ==
    LET L == CharLen(text)
        n == Len(chunks)
    IN  /\ n >= 1
        /\ \A k \in 1..n : chunks[k].text = Slice(text, chunks[k].lo, chunks[k].hi)
        /\ L <= max_size => chunks = <<[text |-> text, lo |-> 0, hi |-> Len(text)]>>
        /\ chunks[1].lo = 0
        /\ chunks[n].hi = Len(text)
        /\ \A k \in 1..n : CharLen(chunks[k].text) <= max_size
        /\ \A k \in 2..n :
             CharPos(text, chunks[k].lo) = CharPos(text, chunks[k - 1].hi) - overlap

(* C7: for every text of length L and every max_size M and overlap O < M,  *)
(* chunk_text returns chunks that cover [0, L): the first starts at 0, the  *)
(* last ends at L, each is at most M long, each after the first starts O    *)
(* characters before the end of the previous one; for L <= M the result is  *)
(* the one chunk equal to the text.                                         *)
C7_ChunksCoverText ==
    /\ cpc # "panic"
    /\ cpc = "returned" => ChunksCover

\* the same for the texts whose characters are all one byte long
ChunksCoverAscii ==
    (\A k \in 1..Len(text) : text[k] \notin {"L", "T"}) => C7_ChunksCoverText

\* chunk("abcdefghij", 4, 1) = ["abcd", "defg", "ghij"]
ChunkExample ==
    (cpc = "returned" /\ text = ExampleText /\ max_size = 4 /\ overlap = 1) =>
        [k \in 1..Len(chunks) |-> chunks[k].text]
          = << <<"a", "b", "c", "d">>, <<"d", "e", "f", "g">>, <<"g", "h", "i", "j">> >>

\* the text holds a character of more than one byte
HasMultiByte ==
    \E k \in 1..Len(text) : text[k] = "L"

(* C13: for every text that holds multi-byte characters and is longer than  *)
(* max_size, chunk_text completes and returns its chunks, and every chunk   *)
(* starts and ends on a character boundary.                                 *)
C13_NeverSplitsCharacter ==
    (HasMultiByte /\ CharLen(text) > max_size) =>
        /\ cpc # "panic"
        /\ \A k \in 1..Len(chunks) :
             /\ IsCharBoundary(text, chunks[k].lo)
             /\ IsCharBoundary(text, chunks[k].hi)

(***************************************************************************)
(* chunk_text called with any overlap.  usize arithmetic is kept modulo    *)
(* UsizeModulus (a reduced width: every length of the model is far below   *)
(* it, as every length of a text is far below 2^64).  `max_size - overlap` *)
(* with overlap > max_size panics in a build with overflow checks and      *)
(* wraps in one without: both outcomes are steps.                          *)
(***************************************************************************)
UsizeModulus ==
    2 ^ 8

ChunkStartAnyOverlap ==
    /\ \E n \in 0..MaxTextLen : text \in Utf8Texts(n)
    /\ max_size \in 1..MaxSize
    /\ overlap \in 0..(max_size + 1)
    /\ start = 0
    /\ chunks = <<>>
    /\ cpc = "entry"

\* an iteration with overlap < max_size: push, start advances
ChunkPushAdvance ==
    /\ overlap < max_size
    /\ ChunkPush

\* an iteration with overlap = max_size: push, start += 0.  The loop never
\* ends; the model stops following it once it has pushed more chunks than
\* the text has bytes
ChunkPushNoAdvance ==
    /\ overlap = max_size
    /\ Len(chunks) <= Len(text)
    /\ ChunkPush

\* an iteration with overlap > max_size, overflow checks on: the chunk is
\* pushed, then `max_size - overlap` panics
ChunkSubOverflowPanic ==
    /\ cpc = "loop"
    /\ start < Len(text)
    /\ IsCharBoundary(text, start) /\ IsCharBoundary(text, ChunkEnd)
    /\ ChunkEnd # Len(text)
    /\ overlap > max_size
    /\ chunks' = Append(chunks, [text |-> Slice(text, start, ChunkEnd),
                                 lo |-> start, hi |-> ChunkEnd])
    /\ cpc' = "panic"
    /\ UNCHANGED <<text, max_size, overlap, start>>

\* the same iteration, overflow checks off: the difference and the sum wrap
ChunkSubWraps ==
    /\ cpc = "loop"
    /\ start < Len(text)
    /\ IsCharBoundary(text, start) /\ IsCharBoundary(text, ChunkEnd)
    /\ ChunkEnd # Len(text)
    /\ overlap > max_size
    /\ chunks' = Append(chunks, [text |-> Slice(text, start, ChunkEnd),
                                 lo |-> start, hi |-> ChunkEnd])
    /\ start' = (start + ((max_size + UsizeModulus - overlap) % UsizeModulus))
                  % UsizeModulus
    /\ UNCHANGED <<text, max_size, overlap, cpc>>

\* while start < text.len() is false: the loop ends, chunks is returned
ChunkLoopExit ==
    /\ cpc = "loop"
    /\ start >= Len(text)
    /\ cpc' = "returned"
    /\ UNCHANGED <<text, max_size, overlap, start, chunks>>

ChunkInitAnyOverlap ==
    /\ ChunkStartAnyOverlap
    /\ ConverseIdle
    /\ DecoderIdle
    /\ RagIdle
    /\ StartupIdle
    /\ AskIdle

ChunkNextAnyOverlap ==
    \/ ChunkWhole /\ UNCHANGED <<converseVars, decoderVars, ragVars, startupVars, askVars>>
    \/ ChunkEnterLoop /\ UNCHANGED <<converseVars, decoderVars, ragVars, startupVars, askVars>>
    \/ ChunkPanic /\ UNCHANGED <<converseVars, decoderVars, ragVars, startupVars, askVars>>
    \/ ChunkPushAdvance /\ UNCHANGED <<converseVars, decoderVars, ragVars, startupVars, askVars>>
    \/ ChunkPushNoAdvance /\ UNCHANGED <<converseVars, decoderVars, ragVars, startupVars, askVars>>
    \/ ChunkSubOverflowPanic /\ UNCHANGED <<converseVars, decoderVars, ragVars, startupVars, askVars>>
    \/ ChunkSubWraps /\ UNCHANGED <<converseVars, decoderVars, ragVars, startupVars, askVars>>
    \/ ChunkLoopExit /\ UNCHANGED <<converseVars, decoderVars, ragVars, startupVars, askVars>>
    \/ ChunkLast /\ UNCHANGED <<converseVars, decoderVars, ragVars, startupVars, askVars>>

SpecChunkAnyOverlap ==
    ChunkInitAnyOverlap /\ [][ChunkNextAnyOverlap]_vars

(* C14: chunk_text called with overlap >= max_size on a text longer than    *)
(* max_size is rejected with a failure: it does not return a chunk list,    *)
(* and it does not go through the loop without advancing start.             *)
C14_OverlapRejected ==
    (overlap >= max_size /\ Len(text) > max_size) =>
        /\ cpc # "returned"
        /\ \A j, k \in 1..Len(chunks) : j < k => chunks[j].lo < chunks[k].lo

\* the part that holds: with overlap < max_size start grows at every push
StartAdvances ==
    overlap < max_size =>
        \A j, k \in 1..Len(chunks) : j < k => chunks[j].lo < chunks[k].lo

(***************************************************************************)
(*                 RagStore::new / search (src/rag.rs)                     *)
(*                                                                         *)
(* An embedding is a pair of integers; the vectors of the model have an    *)
(* integer norm, so a cosine is an exact multiple of 1/SimScale and        *)
(* similarities are kept as that multiple.  A chunk is its identity (its   *)
(* source and text), a snippet the chunk it is formatted from.             *)
(***************************************************************************)
Vectors ==
    {<<1, 0>>, <<0, 1>>, <<0, 0>>, <<-1, 0>>, <<3, 4>>}

SimScale ==
    5 * 5

\* the chunks load_and_chunk_files finds, in discovery order
ChunkIds(n) ==
    [k \in 1..n |-> <<"chunk", k>>]

Queries ==
    {"q1", "q2"}

\* the vector lists of at most n vectors
VectorLists(n) ==
    UNION {[1..m -> Vectors] : m \in 0..n}

Dot(a, b) ==
    a[1] * b[1] + a[2] * b[2]

\* a.iter().map(|x| x.powi(2)).sum().sqrt()
Norm(a) ==
    CHOOSE n \in 0..Dot(a, a) : n * n = Dot(a, a)

\* cos_sim: 0 when a norm is 0, else dot / (|a| |b|), in units of 1/SimScale
CosSim(a, b) ==
    IF Norm(a) = 0 \/ Norm(b) = 0 THEN 0
    ELSE (Dot(a, b) * SimScale) \div (Norm(a) * Norm(b))

\* self.embeddings.iter().zip(&self.chunks).map(..): as long as the shorter
Scored(query_embedding, st) ==
    [k \in 1..Min(Len(st.embeddings), Len(st.chunks)) |->
        [sim |-> CosSim(query_embedding, st.embeddings[k]), chunk |-> st.chunks[k]]]

RECURSIVE InsertDesc(_, _)
InsertDesc(sorted, e) ==
    IF sorted = <<>> THEN <<e>>
    ELSE IF Head(sorted).sim >= e.sim
         THEN <<Head(sorted)>> \o InsertDesc(Tail(sorted), e)
    ELSE <<e>> \o sorted

\* scored_chunks.sort_by(|a, b| b.0.partial_cmp(&a.0)..): stable, descending
RECURSIVE SortDesc(_)
SortDesc(scored) ==
    IF scored = <<>> THEN <<>>
    ELSE InsertDesc(SortDesc(Front(scored)), Last(scored))

\* .iter().take(top_k).map(|(_, chunk)| format!(..)).collect()
TakeSnippets(sorted, top_k) ==
    [k \in 1..Min(top_k, Len(sorted)) |-> sorted[k].chunk]

\* RagStore::new is called; the files under the context paths are what they are
RagStart ==
    /\ \E n \in 0..MaxChunks : found = ChunkIds(n)
    /\ store = NoStore
    /\ rpc = "start"
    /\ search_out = NoSearch
    /\ embed_calls = <<>>

\* new: chunks.is_empty() => Ok(store without embeddings), no call
RagNewEmpty ==
    /\ rpc = "start"
    /\ found = <<>>
    /\ store' = [chunks |-> found, embeddings |-> <<>>]
    /\ rpc' = "built"
    /\ UNCHANGED <<found, search_out, embed_calls>>

\* new: embed_batch(documents) fails (send, status or decoding): `?` returns
RagNewErr ==
    /\ rpc = "start"
    /\ found # <<>>
    /\ embed_calls' = Append(embed_calls, found)
    /\ rpc' = "failed"
    /\ UNCHANGED <<found, store, search_out>>

RagNewOk_OneCallPerChunk ==
    /\ rpc = "start"
    /\ found # <<>>
    /\ embed_calls' = embed_calls \o [k \in 1..Len(found) |-> <<found[k]>>]
    /\ \E vectors \in VectorLists(Len(found) + 1) :
         store' = [chunks |-> found, embeddings |-> vectors]
    /\ rpc' = "built"
    /\ UNCHANGED <<found, search_out>>

\* new: embed_batch(documents) = Ok(vectors), whatever vectors the response
\* carries: the response is not compared with the request
RagNewOk ==
    /\ rpc = "start"
    /\ found # <<>>
    /\ embed_calls' = Append(embed_calls, found)
    /\ \E vectors \in VectorLists(Len(found) + 1) :
         store' = [chunks |-> found, embeddings |-> vectors]
    /\ rpc' = "built"
    /\ UNCHANGED <<found, search_out>>

RagSearchEmpty_CallsService ==
    /\ rpc = "built"
    /\ store.chunks = <<>>
    /\ Len(embed_calls) < MaxCalls
    /\ \E query \in Queries, top_k \in 0..(MaxChunks + 1) :
         /\ embed_calls' = Append(embed_calls, <<query>>)
         /\ search_out' = [query |-> query, top_k |-> top_k, embedded |-> "Err",
                           qvec |-> <<>>, res |-> "Err", snippets |-> <<>>]
    /\ UNCHANGED <<found, store, rpc>>

\* search: self.chunks.is_empty() => Ok(vec![])
RagSearchEmpty ==
    /\ rpc = "built"
    /\ store.chunks = <<>>
    /\ \E query \in Queries, top_k \in 0..(MaxChunks + 1) :
         search_out' = [query |-> query, top_k |-> top_k, embedded |-> "none",
                        qvec |-> <<>>, res |-> "Ok", snippets |-> <<>>]
    /\ UNCHANGED <<found, store, rpc, embed_calls>>

\* search: embed_batch(vec![query]) fails: `?` returns the error
RagSearchErr ==
    /\ rpc = "built"
    /\ store.chunks # <<>>
    /\ Len(embed_calls) < MaxCalls
    /\ \E query \in Queries, top_k \in 0..(MaxChunks + 1) :
         /\ embed_calls' = Append(embed_calls, <<query>>)
         /\ search_out' = [query |-> query, top_k |-> top_k, embedded |-> "Err",
                           qvec |-> <<>>, res |-> "Err", snippets |-> <<>>]
    /\ UNCHANGED <<found, store, rpc>>

\* search: embed_batch = Ok(vec![]): .remove(0) panics
RagSearchPanic ==
    /\ rpc = "built"
    /\ store.chunks # <<>>
    /\ Len(embed_calls) < MaxCalls
    /\ \E query \in Queries, top_k \in 0..(MaxChunks + 1) :
         /\ embed_calls' = Append(embed_calls, <<query>>)
         /\ search_out' = [query |-> query, top_k |-> top_k, embedded |-> "Ok",
                           qvec |-> <<>>, res |-> "panic", snippets |-> <<>>]
    /\ UNCHANGED <<found, store, rpc>>

\* search: embed_batch = Ok(vectors), the first is the query embedding; the
\* chunks are scored, sorted and the first top_k formatted
RagSearchOk ==
    /\ rpc = "built"
    /\ store.chunks # <<>>
    /\ Len(embed_calls) < MaxCalls
    /\ \E query \in Queries, top_k \in 0..(MaxChunks + 1), query_embedding \in Vectors :
         /\ embed_calls' = Append(embed_calls, <<query>>)
         /\ search_out' =
              [query |-> query, top_k |-> top_k, embedded |-> "Ok",
               qvec |-> query_embedding, res |-> "Ok",
               snippets |-> TakeSnippets(SortDesc(Scored(query_embedding, store)), top_k)]
    /\ UNCHANGED <<found, store, rpc>>

RagInit ==
    /\ RagStart
    /\ ConverseIdle
    /\ DecoderIdle
    /\ ChunkIdle
    /\ StartupIdle
    /\ AskIdle

RagNext ==
    \/ RagNewEmpty /\ UNCHANGED <<converseVars, decoderVars, chunkVars, startupVars, askVars>>
    \/ RagNewErr /\ UNCHANGED <<converseVars, decoderVars, chunkVars, startupVars, askVars>>
    \/ RagNewOk /\ UNCHANGED <<converseVars, decoderVars, chunkVars, startupVars, askVars>>
    \/ RagSearchEmpty /\ UNCHANGED <<converseVars, decoderVars, chunkVars, startupVars, askVars>>
    \/ RagSearchErr /\ UNCHANGED <<converseVars, decoderVars, chunkVars, startupVars, askVars>>
    \/ RagSearchPanic /\ UNCHANGED <<converseVars, decoderVars, chunkVars, startupVars, askVars>>
    \/ RagSearchOk /\ UNCHANGED <<converseVars, decoderVars, chunkVars, startupVars, askVars>>

SpecRag ==
    RagInit /\ [][RagNext]_vars

(* C8: every store a successful RagStore::new returns has as many           *)
(* embeddings as chunks, whatever the embedding service answers.            *)
C8_StoreAligned ==
    rpc = "built" => Len(store.embeddings) = Len(store.chunks)

(* C9: when discovery finds no chunk, RagStore::new succeeds with an empty  *)
(* store without calling the embedding service, and every later search, for *)
(* any query and top_k, returns Ok with no snippet, never an error.         *)
C9_EmptyStoreSearch ==
    (found = <<>> /\ rpc # "start") =>
        /\ rpc = "built"
        /\ store = [chunks |-> <<>>, embeddings |-> <<>>]
        /\ embed_calls = <<>>
        /\ search_out.res \in {"none", "Ok"}
        /\ search_out.snippets = <<>>

\* a search with top_k > 0 on the store built from no chunk
C9_Witness ==
    /\ found = <<>>
    /\ rpc = "built"
    /\ search_out.res = "Ok"
    /\ search_out.top_k > 0
    /\ search_out.snippets = <<>>

\* position of a chunk in the store
IndexOf(chunk) ==
    CHOOSE k \in 1..Len(store.chunks) : store.chunks[k] = chunk

\* the snippets are from distinct chunks of the store, by non-increasing
\* similarity to the query
SnippetsRanked ==
    LET sn == search_out.snippets
    IN  /\ \A k \in 1..Len(sn) : \E c \in 1..Len(store.chunks) : store.chunks[c] = sn[k]
        /\ \A j, k \in 1..Len(sn) : j # k => sn[j] # sn[k]
        /\ \A j, k \in 1..Len(sn) :
             j < k => CosSim(search_out.qvec, store.embeddings[IndexOf(sn[j])])
                        >= CosSim(search_out.qvec, store.embeddings[IndexOf(sn[k])])

(* C10: on a store of n chunks, a search whose query embedding succeeds     *)
(* returns exactly min(top_k, n) snippets from distinct chunks, ordered by  *)
(* non-increasing similarity, and raises no error.                          *)
C10_SearchTopK ==
    (rpc = "built" /\ search_out.embedded = "Ok") =>
        /\ search_out.res = "Ok"
        /\ Len(search_out.snippets) = Min(search_out.top_k, Len(store.chunks))
        /\ SnippetsRanked

\* the same when the service answered each batch of N texts with N vectors
SearchTopKOnAlignedStore ==
    (Len(store.embeddings) = Len(store.chunks) /\ search_out.qvec # <<>>) =>
        C10_SearchTopK

(* C19: a store build that found chunks sends one batch, all the chunks in *)
(* chunk order, and a build that found none sends nothing; a search on a    *)
(* store with chunks sends one batch holding the query alone, and a search  *)
(* on a store without chunks sends nothing.                                 *)
C19_EmbeddingCallCounts ==
    /\ [](rpc = "start" => embed_calls = <<>>)
    /\ [](rpc # "start" =>
            IF found = <<>> THEN embed_calls = <<>>
            ELSE /\ embed_calls # <<>>
                 /\ embed_calls[1] = found
                 /\ rpc = "failed" => Len(embed_calls) = 1)
    /\ [][rpc = "start" /\ rpc' # "start" =>
            embed_calls' = IF found = <<>> THEN embed_calls
                           ELSE Append(embed_calls, found)]_vars
    /\ [][rpc = "built" =>
            /\ search_out'.res # "none"
            /\ embed_calls' = IF store.chunks = <<>> THEN embed_calls
                              ELSE Append(embed_calls, <<search_out'.query>>)]_vars

\* a store of two chunks was built with one call and searched with one more
C19_Witness ==
    /\ rpc = "built"
    /\ Len(found) = 2
    /\ search_out.res = "Ok"
    /\ embed_calls = <<found, <<search_out.query>>>>

(***************************************************************************)
(*        Start of run_ask and run_converse (src/main.rs)                  *)
(*                                                                         *)
(* A persona file is missing/unreadable or holds a model identifier and    *)
(* context paths: none, paths without any text file (no chunk), or paths   *)
(* with documents.  outbound logs every call sent to a service.            *)
(***************************************************************************)
PersonaFiles ==
    {[file |-> "missing", model |-> "none", context |-> "none"]}
    \cup [file : {"ok"}, model : {"gemini", "other"},
          context : {"none", "nochunks", "docs"}]

\* the persona being loaded: args.persona, or the next p_name of the loop
CurrentPersona ==
    personas[loaded + 1]

EmbedChunksCall(k) ==
    [kind |-> "embed_chunks", persona |-> k]

Fail(err) ==
    /\ spos' = "failed"
    /\ sres' = err
    /\ UNCHANGED <<cmd, api_key_set, personas, loaded>>

StartupStart ==
    /\ cmd \in {"ask", "converse"}
    /\ api_key_set \in BOOLEAN
    /\ \E n \in 1..MaxPersonas :
         /\ personas \in [1..n -> PersonaFiles]
         /\ cmd = "ask" => n = 1
         /\ cmd = "converse" => n >= 2
    /\ spos = "start"
    /\ loaded = 0
    /\ outbound = <<>>
    /\ sres = "none"

\* run_ask: config::load_persona(&args.persona)?
AskLoadPersona ==
    /\ cmd = "ask"
    /\ spos = "start"
    /\ IF CurrentPersona.file = "ok"
       THEN spos' = "key" /\ UNCHANGED <<cmd, api_key_set, personas, loaded, sres>>
       ELSE Fail("ErrPersona")
    /\ UNCHANGED outbound

\* run_ask: env::var("GEMINI_API_KEY").map_err(..)?
AskApiKey ==
    /\ cmd = "ask"
    /\ spos = "key"
    /\ IF api_key_set
       THEN spos' = "store" /\ UNCHANGED <<cmd, api_key_set, personas, loaded, sres>>
       ELSE Fail("ErrNoKey")
    /\ UNCHANGED outbound

\* run_ask: no context path (None), or RagStore::new finds no chunk
AskNoStoreCall ==
    /\ cmd = "ask"
    /\ spos = "store"
    /\ CurrentPersona.context \in {"none", "nochunks"}
    /\ spos' = "model"
    /\ UNCHANGED <<cmd, api_key_set, personas, loaded, sres, outbound>>

\* run_ask: Some(RagStore::new(..).await?) with chunks: one embedding call
AskRagStoreNew ==
    /\ cmd = "ask"
    /\ spos = "store"
    /\ CurrentPersona.context = "docs"
    /\ outbound' = Append(outbound, EmbedChunksCall(1))
    /\ \/ spos' = "model" /\ UNCHANGED <<cmd, api_key_set, personas, loaded, sres>>
       \/ Fail("ErrStore")

\* run_ask: match persona.model.as_str() { "gemini" => .., _ => return Err }
AskModel ==
    /\ cmd = "ask"
    /\ spos = "model"
    /\ IF CurrentPersona.model = "gemini"
       THEN spos' = "search" /\ UNCHANGED <<cmd, api_key_set, personas, loaded, sres>>
       ELSE Fail("ErrUnknownModel")
    /\ UNCHANGED outbound

\* run_ask: store.search(&prompt_str, rag_chunks).await? when there is a store
AskSearch ==
    /\ cmd = "ask"
    /\ spos = "search"
    /\ IF CurrentPersona.context = "docs"
       THEN /\ outbound' = Append(outbound, [kind |-> "embed_query", persona |-> 1])
            /\ \/ spos' = "chat" /\ UNCHANGED <<cmd, api_key_set, personas, loaded, sres>>
               \/ Fail("ErrSearch")
       ELSE /\ spos' = "chat"
            /\ UNCHANGED <<cmd, api_key_set, personas, loaded, sres, outbound>>

\* run_ask: model.ask_stream(&messages) or model.ask(&messages)
AskChat ==
    /\ cmd = "ask"
    /\ spos = "chat"
    /\ outbound' = Append(outbound, [kind |-> "chat", persona |-> 1])
    /\ \/ spos' = "done" /\ sres' = "Ok" /\ UNCHANGED <<cmd, api_key_set, personas, loaded>>
       \/ Fail("ErrChat")

\* run_converse: env::var("GEMINI_API_KEY").map_err(..)?
ConverseApiKey ==
    /\ cmd = "converse"
    /\ spos = "start"
    /\ IF api_key_set
       THEN spos' = "load" /\ UNCHANGED <<cmd, api_key_set, personas, loaded, sres>>
       ELSE Fail("ErrNoKey")
    /\ UNCHANGED outbound

\* run_converse, for p_name in &args.persona: config::load_persona(p_name)?
ConverseLoadPersona ==
    /\ cmd = "converse"
    /\ spos = "load"
    /\ loaded < Len(personas)
    /\ IF CurrentPersona.file = "ok"
       THEN spos' = "model" /\ UNCHANGED <<cmd, api_key_set, personas, loaded, sres>>
       ELSE Fail("ErrPersona")
    /\ UNCHANGED outbound

\* run_converse: match persona.model.as_str() { "gemini" => .., _ => return Err }
ConverseModel ==
    /\ cmd = "converse"
    /\ spos = "model"
    /\ IF CurrentPersona.model = "gemini"
       THEN spos' = "store" /\ UNCHANGED <<cmd, api_key_set, personas, loaded, sres>>
       ELSE Fail("ErrUnknownModel")
    /\ UNCHANGED outbound

\* run_converse: no context path (None), or RagStore::new finds no chunk;
\* agents.push(..)
ConverseNoStoreCall ==
    /\ cmd = "converse"
    /\ spos = "store"
    /\ CurrentPersona.context \in {"none", "nochunks"}
    /\ loaded' = loaded + 1
    /\ spos' = "load"
    /\ UNCHANGED <<cmd, api_key_set, personas, sres, outbound>>

\* run_converse: Some(RagStore::new(..).await?) with chunks: one embedding
\* call; agents.push(..)
ConverseRagStoreNew ==
    /\ cmd = "converse"
    /\ spos = "store"
    /\ CurrentPersona.context = "docs"
    /\ outbound' = Append(outbound, EmbedChunksCall(loaded + 1))
    /\ \/ /\ loaded' = loaded + 1
          /\ spos' = "load"
          /\ UNCHANGED <<cmd, api_key_set, personas, sres>>
       \/ Fail("ErrStore")

\* run_converse: every persona is loaded, the History is seeded, the turn
\* loop begins
ConverseAgentsLoaded ==
    /\ cmd = "converse"
    /\ spos = "load"
    /\ loaded = Len(personas)
    /\ spos' = "loop"
    /\ UNCHANGED <<cmd, api_key_set, personas, loaded, sres, outbound>>

StartupInit ==
    /\ StartupStart
    /\ ConverseIdle
    /\ DecoderIdle
    /\ ChunkIdle
    /\ RagIdle
    /\ AskIdle

StartupNext ==
    \/ AskLoadPersona /\ UNCHANGED <<converseVars, decoderVars, chunkVars, ragVars, askVars>>
    \/ AskApiKey /\ UNCHANGED <<converseVars, decoderVars, chunkVars, ragVars, askVars>>
    \/ AskNoStoreCall /\ UNCHANGED <<converseVars, decoderVars, chunkVars, ragVars, askVars>>
    \/ AskRagStoreNew /\ UNCHANGED <<converseVars, decoderVars, chunkVars, ragVars, askVars>>
    \/ AskModel /\ UNCHANGED <<converseVars, decoderVars, chunkVars, ragVars, askVars>>
    \/ AskSearch /\ UNCHANGED <<converseVars, decoderVars, chunkVars, ragVars, askVars>>
    \/ AskChat /\ UNCHANGED <<converseVars, decoderVars, chunkVars, ragVars, askVars>>
    \/ ConverseApiKey /\ UNCHANGED <<converseVars, decoderVars, chunkVars, ragVars, askVars>>
    \/ ConverseLoadPersona /\ UNCHANGED <<converseVars, decoderVars, chunkVars, ragVars, askVars>>
    \/ ConverseModel /\ UNCHANGED <<converseVars, decoderVars, chunkVars, ragVars, askVars>>
    \/ ConverseNoStoreCall /\ UNCHANGED <<converseVars, decoderVars, chunkVars, ragVars, askVars>>
    \/ ConverseRagStoreNew /\ UNCHANGED <<converseVars, decoderVars, chunkVars, ragVars, askVars>>
    \/ ConverseAgentsLoaded /\ UNCHANGED <<converseVars, decoderVars, chunkVars, ragVars, askVars>>

SpecStartup ==
    StartupInit /\ [][StartupNext]_vars

\* missing credential, unrecognized model identifier
ConfigErrors ==
    {"ErrNoKey", "ErrUnknownModel"}

(* C12: in every run of run_ask or run_converse that ends with a            *)
(* missing-credential error or an unrecognized-model error, no outbound     *)
(* call (embedding call of a store build, chat call) was issued before it.  *)
C12_NoCallBeforeConfigError ==
    sres \in ConfigErrors => outbound = <<>>

\* the part that holds: a missing credential is met before any call, and so
\* is an unknown model of the first persona of run_converse
NoCallBeforeMissingKey ==
    /\ sres = "ErrNoKey" => outbound = <<>>
    /\ (cmd = "converse" /\ sres = "ErrUnknownModel" /\ loaded = 0) => outbound = <<>>

====
